---------------------------- MODULE Spec2Model ----------------------------
(***************************************************************************)
(* FOLFOX simulator (model.py) and cycle-count optimiser                   *)
(* (optimise_folfox.py main) as a state machine.                           *)
(*                                                                         *)
(* Numbers.  The program computes in binary floating point.  Here every    *)
(* real quantity (mg, 10^9/L, utility, cost, rates, ...) is a fixed-point  *)
(* integer counting hundredths (Scale), products and quotients are         *)
(* rounded down to that resolution (FMul, FDiv, FSqrt).  Day counts,       *)
(* array indices, cycle counts, the step size and the horizon are plain    *)
(* integers; the step size is a whole number of days and the Hill          *)
(* coefficient a small natural number, so that int(), ** and the Euler     *)
(* products are computed exactly as the code orders them.                  *)
(*                                                                         *)
(* Optional values (a YAML field left empty, a command line flag not       *)
(* given: Python None) are <<>>, a present value v is <<v>>.               *)
(***************************************************************************)
EXTENDS Integers, Sequences, FiniteSets, TLC

\* ------------------------------------------------------------ arithmetic

Scale == 10 * 10

FMul(a, b) == (a * b) \div Scale

FDiv(a, b) == (a * Scale) \div b

RECURSIVE SqrtBetween(_, _, _)
SqrtBetween(lo, hi, x) ==
    IF lo >= hi THEN lo
    ELSE LET mid == (lo + hi + 1) \div 2
         IN  IF mid * mid <= x THEN SqrtBetween(mid, hi, x)
                               ELSE SqrtBetween(lo, mid - 1, x)

\* math.sqrt on a fixed-point value: sqrt(a/Scale)*Scale = sqrt(a*Scale)
FSqrt(a) == SqrtBetween(0, 100 * Scale, a * Scale)

\* x ** h for a natural exponent h
RECURSIVE FPow(_, _)
FPow(x, h) == IF h = 0 THEN Scale ELSE FMul(FPow(x, h - 1), x)

Max(a, b) == IF a >= b THEN a ELSE b

None == << >>

Some(v) == << v >>

IsNone(o) == o = << >>

Val(o) == o[1]

\* np.zeros(n): indices 0..n-1
Zeros(n) == [i \in 0 .. (n - 1) |-> 0]

\* mutant: nothing is appended, the array keeps its length n
AppendNothing(a, n) == a

\* np.append(a, 0) for an array a of length n
AppendZero(a, n) == [i \in 0 .. n |-> IF i < n THEN a[i] ELSE 0]

\* np.full(n, v)
Full(n, v) == [i \in 0 .. (n - 1) |-> v]

RECURSIVE SumRange(_, _, _)
SumRange(a, lo, hi) == IF lo > hi THEN 0 ELSE a[lo] + SumRange(a, lo + 1, hi)

\* np.mean(a[1:]) for an array of length n+1 (n >= 1)
MeanFrom1(a, n) == SumRange(a, 1, n) \div n


\* ------------------------------------------------------ parameter bundle

\* src/params.py dataclasses; values in hundredths except the day counts.
\* solver, outputs and anc_crit are never read by the simulator or the search.
Bundle(pat, grid, min_days, ktox, thr, hill, uv, infusion) ==
    [ hematology |->
        [ anc_baseline |-> 500, k_out |-> 10,
          k_tox_5fu_dose |-> ktox.k5fu, k_tox_ox_dose |-> ktox.kox,
          severe_neutropenia_threshold |-> 100 ],
      neuropathy |-> [ chronic_neuropathy_threshold_mg_m2 |-> thr ],
      dosing |->
        [ max_daily_5fu_mg_m2 |-> 2000, max_single_ox_mg_m2 |-> 1000,
          min_days_between_ox |-> min_days,
          patient_weight_kg |-> pat.w, patient_height_cm |-> pat.h ],
      utility |->
        [ baseline_utility |-> 76,
          neutropenia_penalty |-> uv.neutropenia_penalty,
          neuropathy_penalty |-> uv.neuropathy_penalty ],
      optimization |->
        [ horizon_days |-> grid.horizon, step_size_days |-> grid.step ],
      economics |->
        [ cost_5fu_mg |-> 1, cost_ox_mg |-> 10,
          cost_infusion_day |-> infusion, cost_pump_day |-> 200,
          cost_utility_factor |-> uv.cost_utility_factor ],
      tumor |->
        [ initial_size |-> 10000, growth_rate |-> 1, E_max |-> 80,
          EC_50 |-> 200, hill_coef |-> hill,
          clearance_ox_L_h |-> 200, clearance_5fu_L_h |-> 400,
          alpha_ox |-> 50, alpha_5fu |-> 10,
          tumor_weight_in_utility |-> uv.tumor_weight_in_utility ] ]

Patients == { [w |-> 9000, h |-> 16000], [w |-> 8100, h |-> 10000] }

TimeGrids ==
    { [horizon |-> 15, step |-> 1], [horizon |-> 28, step |-> 1],
      [horizon |-> 15, step |-> 2], [horizon |-> 28, step |-> 2],
      [horizon |-> 30, step |-> 2] }

MinDays == { Some(7), Some(14), Some(20) }

KTox == { [k5fu |-> 0, kox |-> 0], [k5fu |-> 1, kox |-> 5] }

ChronicThresholds == { 0, 1000, 1500 }

HillCoefs == { 1, 2 }

\* additive penalties stored negative (config default) or positive, a
\* utility that ignores everything, and one that reads the tumour only
UtilityVariants ==
    { [ neutropenia_penalty |-> -20, neuropathy_penalty |-> -24,
        cost_utility_factor |-> 1, tumor_weight_in_utility |-> 10 ],
      [ neutropenia_penalty |-> 20, neuropathy_penalty |-> 24,
        cost_utility_factor |-> 1, tumor_weight_in_utility |-> 10 ],
      [ neutropenia_penalty |-> 0, neuropathy_penalty |-> 0,
        cost_utility_factor |-> 0, tumor_weight_in_utility |-> 0 ],
      [ neutropenia_penalty |-> 0, neuropathy_penalty |-> 0,
        cost_utility_factor |-> 0, tumor_weight_in_utility |-> 10 ] }

InfusionFee == Some(1000)

\* bundles that satisfy the data model's invariants: weight, height > 0,
\* positive horizon and step, every constant a non-negative number
ValidBundles ==
    { Bundle(pat, grid, md, kt, thr, hl, uv, InfusionFee) :
        pat \in Patients, grid \in TimeGrids, md \in MinDays, kt \in KTox,
        thr \in ChronicThresholds, hl \in HillCoefs, uv \in UtilityVariants }

BasePatient == [w |-> 9000, h |-> 16000]

BaseGrid == [horizon |-> 28, step |-> 1]

BaseKTox == [k5fu |-> 1, kox |-> 5]

BaseUtility ==
    [ neutropenia_penalty |-> -20, neuropathy_penalty |-> -24,
      cost_utility_factor |-> 1, tumor_weight_in_utility |-> 10 ]

BaseBundle ==
    Bundle(BasePatient, BaseGrid, Some(14), BaseKTox, 1500, 1, BaseUtility,
           InfusionFee)

\* non-physical configuration: weight or height <= 0, step size or horizon
\* <= 0 (what a config file can hold: from_dict validates nothing)
InvalidBundles ==
    { Bundle(pat, BaseGrid, Some(14), BaseKTox, 1500, 1, BaseUtility,
             InfusionFee) :
        pat \in { [w |-> 0, h |-> 16000], [w |-> 9000, h |-> 0],
                  [w |-> -9000, h |-> 16000] } }
    \cup
    { Bundle(BasePatient, grid, Some(14), BaseKTox, 1500, 1, BaseUtility,
             InfusionFee) :
        grid \in { [horizon |-> 28, step |-> 0], [horizon |-> -14, step |-> 1],
                   [horizon |-> 0, step |-> 1] } }

\* a bundle with a field left empty in the YAML file (None)
CorruptedBundles ==
    { Bundle(BasePatient, grid, None, BaseKTox, 1500, 1, BaseUtility,
             InfusionFee) : grid \in TimeGrids }
    \cup
    { Bundle(BasePatient, grid, Some(14), BaseKTox, 1500, 1, BaseUtility,
             None) : grid \in TimeGrids }

ConfigBundles == ValidBundles \cup InvalidBundles \cup CorruptedBundles

Valid(b) ==
    /\ b.dosing.patient_weight_kg > 0
    /\ b.dosing.patient_height_cm > 0
    /\ b.optimization.horizon_days > 0
    /\ b.optimization.step_size_days > 0
    /\ ~IsNone(b.dosing.min_days_between_ox)
    /\ ~IsNone(b.economics.cost_infusion_day)

\* command line flags of parse_args that reach the bundle
NoArgs == [weight |-> None, height |-> None, horizon |-> None, step |-> None]

ArgSets ==
    { NoArgs,
      [NoArgs EXCEPT !.weight = Some(0)],
      [NoArgs EXCEPT !.weight = Some(8100)],
      [NoArgs EXCEPT !.height = Some(0)],
      [NoArgs EXCEPT !.height = Some(10000)],
      [NoArgs EXCEPT !.horizon = Some(15)],
      [NoArgs EXCEPT !.horizon = Some(0)],
      [NoArgs EXCEPT !.step = Some(2)] }

\* ------------------------------------------------------------- state

VARIABLES
    args,                 \* main: parsed command line
    params,               \* the FOLFOXParams bundle (one shared object)
    pc,                   \* position of the running code
    outcome,              \* main: how it left the search
    console,              \* main: lines printed by the search loop
    max_possible_cycles, n_cycles,
    best_avg_utility, optimal_cycle_count, best_results,
    model,                \* the FOLFOXModel instance, None before __init__
    exc,                  \* the exception in flight when pc = "raised"
    num_cycles_to_administer,
    t, dose_5fu, dose_ox, anc, cum_ox, acute_neuropathy, chronic_neuropathy,
    utility, daily_cost, total_cost, tumor_size, kill_rate, eff_auc,
    traces                \* direct caller of solve: the traces returned so far

mainVars ==
    << args, outcome, console, max_possible_cycles, n_cycles,
       best_avg_utility, optimal_cycle_count, best_results >>

simVars ==
    << t, dose_5fu, dose_ox, anc, cum_ox, acute_neuropathy,
       chronic_neuropathy, utility, daily_cost, total_cost, tumor_size,
       kill_rate, eff_auc >>

vars ==
    << args, params, pc, outcome, console, max_possible_cycles, n_cycles,
       best_avg_utility, optimal_cycle_count, best_results, model, exc,
       num_cycles_to_administer, t, dose_5fu, dose_ox, anc, cum_ox,
       acute_neuropathy, chronic_neuropathy, utility, daily_cost,
       total_cost, tumor_size, kill_rate, eff_auc, traces >>

\* ------------------------------------------------- FOLFOXModel.__init__

\* int(x / y) for y > 0: float division, truncated toward zero
IntDiv(x, y) == IF x >= 0 THEN x \div y ELSE -((-x) \div y)

InitRaises(p) ==
    IF p.optimization.step_size_days = 0 THEN "ZeroDivisionError"
    ELSE IF p.dosing.patient_weight_kg <= 0 \/ p.dosing.patient_height_cm <= 0
         THEN "ValueError"
         ELSE "none"

\* Du Bois shortcut of the code: sqrt(height * weight / 3600)
BSA(weight_kg, height_cm) ==
    FSqrt(FDiv(FMul(height_cm, weight_kg), 3600 * Scale))

\* the instance attributes; self.params is the caller's bundle itself
NewModel(p) ==
    LET bsa_m2 == BSA(p.dosing.patient_weight_kg, p.dosing.patient_height_cm)
    IN  [ dt |-> p.optimization.step_size_days,
          horizon |-> p.optimization.horizon_days,
          T |-> IntDiv(p.optimization.horizon_days,
                       p.optimization.step_size_days),
          bsa_m2 |-> bsa_m2,
          max_daily_5fu_mg |-> FMul(p.dosing.max_daily_5fu_mg_m2, bsa_m2),
          max_single_ox_mg |-> FMul(p.dosing.max_single_ox_mg_m2, bsa_m2),
          chronic_neuro_thresh_mg |->
              FMul(p.neuropathy.chronic_neuropathy_threshold_mg_m2, bsa_m2),
          severe_neutropenia_thresh |->
              p.hematology.severe_neutropenia_threshold ]

\* -------------------------------------------------- get_dosing_schedule

cycle_len_days == 14

\* mutant: cycles start one step later each time (a 15-day cycle)
StartDayIdxDrift(cycle, dt) == IntDiv(cycle * cycle_len_days, dt) + cycle

StartDayIdx(cycle, dt) == IntDiv(cycle * cycle_len_days, dt)

\* mutant: the spacing check is dropped
OxAllowedAlways(cycle, min_days_between_ox) == TRUE

\* the "simplistic check": evaluating it with min_days_between_ox = None
\* (only reached when cycle > 0) is a TypeError
OxAllowed(cycle, min_days_between_ox) ==
    cycle = 0 \/ Val(min_days_between_ox) <= cycle_len_days

OxCheckRaises(cycle, min_days_between_ox) ==
    cycle # 0 /\ IsNone(min_days_between_ox)

\* one pass of the for loop over an accumulator [d5, dox, raised]
ScheduleCycle(s, cycle, m, p) ==
    LET day1_idx == StartDayIdx(cycle, m.dt)
        day2_idx == day1_idx + 1
        md == p.dosing.min_days_between_ox
    IN  IF s.raised # "none" THEN s
        ELSE IF day1_idx < m.T /\ OxCheckRaises(cycle, md)
        THEN [s EXCEPT !.raised = "TypeError"]
        ELSE LET dox1 == IF day1_idx < m.T /\ OxAllowed(cycle, md)
                         THEN [s.dox EXCEPT ![day1_idx] = m.max_single_ox_mg]
                         ELSE s.dox
                 d5a == IF day1_idx < m.T
                        THEN [s.d5 EXCEPT ![day1_idx] = m.max_daily_5fu_mg]
                        ELSE s.d5
                 d5b == IF day2_idx < m.T
                        THEN [d5a EXCEPT ![day2_idx] = m.max_daily_5fu_mg]
                        ELSE d5a
             IN  [d5 |-> d5b, dox |-> dox1, raised |-> "none"]

RECURSIVE ScheduleLoop(_, _, _, _, _)
ScheduleLoop(s, cycle, n, m, p) ==
    IF cycle >= n THEN s
    ELSE ScheduleLoop(ScheduleCycle(s, cycle, m, p), cycle + 1, n, m, p)

\* np.zeros(T) with T < 0 raises ValueError before the loop
GetDosingSchedule(n, m, p) ==
    IF m.T < 0 THEN [d5 |-> Zeros(0), dox |-> Zeros(0), raised |-> "ValueError"]
    ELSE ScheduleLoop([d5 |-> Zeros(m.T), dox |-> Zeros(m.T), raised |-> "none"],
                      0, n, m, p)

\* ---------------------------------------------------------- simulate

\* mutant: cumulative exposure is kept on the instance between calls
InitialStateStale(m, p) ==
    [ anc |-> [Zeros(m.T + 1) EXCEPT ![0] = p.hematology.anc_baseline],
      cum_ox |-> IF DOMAIN cum_ox = {} THEN Zeros(m.T + 1)
                 ELSE [Zeros(m.T + 1) EXCEPT ![0] = cum_ox[m.T]],
      acute_neuropathy |-> Zeros(m.T + 1),
      chronic_neuropathy |-> Zeros(m.T + 1),
      utility |-> [Zeros(m.T + 1) EXCEPT ![0] = p.utility.baseline_utility],
      daily_cost |-> Zeros(m.T),
      total_cost |-> Zeros(m.T + 1),
      tumor_size |-> [Zeros(m.T + 1) EXCEPT ![0] = p.tumor.initial_size],
      kill_rate |-> Zeros(m.T),
      eff_auc |-> Zeros(m.T) ]

\* the state arrays, allocated on every call, and the initial conditions
InitialState(m, p) ==
    [ anc |-> [Zeros(m.T + 1) EXCEPT ![0] = p.hematology.anc_baseline],
      cum_ox |-> Zeros(m.T + 1),
      acute_neuropathy |-> Zeros(m.T + 1),
      chronic_neuropathy |-> Zeros(m.T + 1),
      utility |-> [Zeros(m.T + 1) EXCEPT ![0] = p.utility.baseline_utility],
      daily_cost |-> Zeros(m.T),
      total_cost |-> Zeros(m.T + 1),
      tumor_size |-> [Zeros(m.T + 1) EXCEPT ![0] = p.tumor.initial_size],
      kill_rate |-> Zeros(m.T),
      eff_auc |-> Zeros(m.T) ]


\* mutant: the floor "max(0, ...)" is left out
AncNextNoFloor(p, dt, anc_t, d5, dox) ==
    LET anc_production == FMul(p.hematology.k_out, p.hematology.anc_baseline)
        anc_loss == FMul(p.hematology.k_out, anc_t)
        toxicity_effect ==
            FMul(FMul(p.hematology.k_tox_5fu_dose, d5)
                   + FMul(p.hematology.k_tox_ox_dose, dox), anc_t)
        d_anc_dt == anc_production - anc_loss - toxicity_effect
    IN  anc_t + d_anc_dt * dt

\* mutant: the drugs act on what is missing from the baseline count
AncNextToxOnDeficit(p, dt, anc_t, d5, dox) ==
    LET anc_production == FMul(p.hematology.k_out, p.hematology.anc_baseline)
        anc_loss == FMul(p.hematology.k_out, anc_t)
        toxicity_effect ==
            FMul(FMul(p.hematology.k_tox_5fu_dose, d5)
                   + FMul(p.hematology.k_tox_ox_dose, dox),
                 p.hematology.anc_baseline - anc_t)
        d_anc_dt == anc_production - anc_loss - toxicity_effect
    IN  Max(0, anc_t + d_anc_dt * dt)

\* 1. ANC dynamics, forward Euler, floored at zero
AncNext(p, dt, anc_t, d5, dox) ==
    LET anc_production == FMul(p.hematology.k_out, p.hematology.anc_baseline)
        anc_loss == FMul(p.hematology.k_out, anc_t)
        toxicity_effect ==
            FMul(FMul(p.hematology.k_tox_5fu_dose, d5)
                   + FMul(p.hematology.k_tox_ox_dose, dox), anc_t)
        d_anc_dt == anc_production - anc_loss - toxicity_effect
    IN  Max(0, anc_t + d_anc_dt * dt)

\* mutant: the dose of the step is stored, not added
CumOxNextNoSum(cum_ox_t, dox) == dox

\* 2. cumulative oxaliplatin
CumOxNext(cum_ox_t, dox) == cum_ox_t + dox

\* 3. neuropathy status
\* mutant: ">=" in the place of ">"
AcuteNextNonNegative(dox) == IF dox >= 0 THEN 1 ELSE 0

AcuteNext(dox) == IF dox > 0 THEN 1 ELSE 0

\* mutant: the threshold has to be exceeded, reaching it is not enough
ChronicNextStrict(cum_ox_next, chronic_t, chronic_neuro_thresh_mg) ==
    IF cum_ox_next > chronic_neuro_thresh_mg THEN 1 ELSE chronic_t

\* mutant: the flag is recomputed every step, with the comparison inverted
ChronicNextInverted(cum_ox_next, chronic_t, chronic_neuro_thresh_mg) ==
    IF cum_ox_next < chronic_neuro_thresh_mg THEN 1 ELSE 0

ChronicNext(cum_ox_next, chronic_t, chronic_neuro_thresh_mg) ==
    IF cum_ox_next >= chronic_neuro_thresh_mg THEN 1 ELSE chronic_t

\* 4. tumour dynamics
persistence_factor == 70

\* mutant: nothing is carried over from the previous step
EffAucNoPersistence(p, step, d5, dox, eff_auc_prev) ==
    FMul(p.tumor.alpha_ox, FDiv(dox, p.tumor.clearance_ox_L_h))
      + FMul(p.tumor.alpha_5fu, FDiv(d5, p.tumor.clearance_5fu_L_h))

EffAuc(p, step, d5, dox, eff_auc_prev) ==
    LET auc_ox == FDiv(dox, p.tumor.clearance_ox_L_h)
        auc_5fu == FDiv(d5, p.tumor.clearance_5fu_L_h)
        today == FMul(p.tumor.alpha_ox, auc_ox)
                   + FMul(p.tumor.alpha_5fu, auc_5fu)
    IN  IF step > 0 THEN today + FMul(eff_auc_prev, persistence_factor)
                    ELSE today

KillRate(p, e) ==
    IF e > 0
    THEN LET numerator == FMul(p.tumor.E_max, FPow(e, p.tumor.hill_coef))
             denominator == FPow(e, p.tumor.hill_coef)
                              + FPow(p.tumor.EC_50, p.tumor.hill_coef)
         IN  FDiv(numerator, denominator)
    ELSE 0

TumorNext(p, dt, tumor_size_t, kill_rate_t) ==
    LET growth == FMul(p.tumor.growth_rate, tumor_size_t)
        kill == FMul(kill_rate_t, tumor_size_t)
    IN  Max(0, tumor_size_t + (growth - kill) * dt)

\* 5. daily cost; adding cost_infusion_day = None is a TypeError
CostRaises(p, d5, dox) ==
    (d5 > 0 \/ dox > 0) /\ IsNone(p.economics.cost_infusion_day)

CostToday(p, d5, dox) ==
    FMul(d5, p.economics.cost_5fu_mg) + FMul(dox, p.economics.cost_ox_mg)
      + (IF d5 > 0 \/ dox > 0 THEN Val(p.economics.cost_infusion_day) ELSE 0)
      + (IF d5 > 0 THEN p.economics.cost_pump_day ELSE 0)

\* mutant: the step's terms are added to the utility of the step before
UtilityNextRunning(p, m, anc_next, acute_next, chronic_next, cost_today, tumor_next) ==
    LET u0 == utility[t]
        u1 == IF anc_next < m.severe_neutropenia_thresh
              THEN u0 + p.utility.neutropenia_penalty ELSE u0
        u2 == IF acute_next = 1 \/ chronic_next = 1
              THEN u1 + p.utility.neuropathy_penalty ELSE u1
        u3 == u2 - FMul(cost_today, p.economics.cost_utility_factor)
        tumor_penalty ==
            FMul(-p.tumor.tumor_weight_in_utility,
                 FDiv(tumor_next, p.tumor.initial_size))
    IN  u3 + tumor_penalty

\* 6. utility of the step, from the baseline
UtilityNext(p, m, anc_next, acute_next, chronic_next, cost_today, tumor_next) ==
    LET u0 == p.utility.baseline_utility
        u1 == IF anc_next < m.severe_neutropenia_thresh
              THEN u0 + p.utility.neutropenia_penalty ELSE u0
        u2 == IF acute_next = 1 \/ chronic_next = 1
              THEN u1 + p.utility.neuropathy_penalty ELSE u1
        u3 == u2 - FMul(cost_today, p.economics.cost_utility_factor)
        tumor_penalty ==
            FMul(-p.tumor.tumor_weight_in_utility,
                 FDiv(tumor_next, p.tumor.initial_size))
    IN  u3 + tumor_penalty

\* the results dictionary of simulate
Results(m) ==
    [ time |-> [i \in 0 .. m.T |-> i * m.dt],
      dose_5fu |-> AppendZero(dose_5fu, m.T),
      dose_ox |-> AppendZero(dose_ox, m.T),
      anc |-> anc,
      acute_neuropathy |-> acute_neuropathy,
      chronic_neuropathy |-> chronic_neuropathy,
      cum_ox |-> cum_ox,
      utility |-> utility,
      chronic_neuropathy_threshold_mg |->
          Full(m.T + 1, m.chronic_neuro_thresh_mg),
      daily_cost |-> AppendZero(daily_cost, m.T),
      total_cost |-> total_cost,
      tumor_size |-> tumor_size,
      kill_rate |-> AppendZero(kill_rate, m.T),
      effective_auc |-> AppendZero(eff_auc, m.T) ]

\* ------------------------------------------------------------ actions

\* model = FOLFOXModel(params)
ModelInit ==
    /\ pc = "init"
    /\ IF InitRaises(params) # "none"
       THEN /\ pc' = "raised"
            /\ exc' = InitRaises(params)
            /\ model' = None
       ELSE /\ pc' = "schedule"
            /\ exc' = "none"
            /\ model' = Some(NewModel(params))
    /\ UNCHANGED << params, mainVars, num_cycles_to_administer, simVars,
                    traces >>

\* simulate, up to the loop: the schedule, fresh arrays, initial conditions
SimulateBegin ==
    /\ pc = "schedule"
    /\ LET m == Val(model)
           sched == GetDosingSchedule(num_cycles_to_administer, m, params)
       IN  IF sched.raised # "none"
           THEN /\ pc' = "raised"
                /\ exc' = sched.raised
                /\ UNCHANGED simVars
           ELSE /\ pc' = "sim"
                /\ exc' = "none"
                /\ t' = 0
                /\ dose_5fu' = sched.d5
                /\ dose_ox' = sched.dox
                /\ anc' = InitialState(m, params).anc
                /\ utility' = InitialState(m, params).utility
                /\ cum_ox' = InitialState(m, params).cum_ox
                /\ acute_neuropathy' = InitialState(m, params).acute_neuropathy
                /\ chronic_neuropathy' =
                       InitialState(m, params).chronic_neuropathy
                /\ total_cost' = InitialState(m, params).total_cost
                /\ tumor_size' = InitialState(m, params).tumor_size
                /\ daily_cost' = InitialState(m, params).daily_cost
                /\ kill_rate' = InitialState(m, params).kill_rate
                /\ eff_auc' = InitialState(m, params).eff_auc
    /\ UNCHANGED << params, mainVars, model, num_cycles_to_administer,
                    traces >>

\* one pass of "for t in range(self.T)"
SimStep ==
    /\ pc = "sim"
    /\ t < Val(model).T
    /\ LET m == Val(model)
           d5 == dose_5fu[t]
           dox == dose_ox[t]
           anc_next == AncNext(params, m.dt, anc[t], d5, dox)
           cum_next == CumOxNext(cum_ox[t], dox)
           acute_next == AcuteNext(dox)
           chronic_next == ChronicNext(cum_next, chronic_neuropathy[t],
                                       m.chronic_neuro_thresh_mg)
           eff == EffAuc(params, t, d5, dox,
                         IF t > 0 THEN eff_auc[t - 1] ELSE 0)
           kr == KillRate(params, eff)
           tumor_next == TumorNext(params, m.dt, tumor_size[t], kr)
           cost_today == CostToday(params, d5, dox)
       IN  IF CostRaises(params, d5, dox)
           THEN /\ pc' = "raised"
                /\ exc' = "TypeError"
                /\ UNCHANGED simVars
           ELSE /\ pc' = "sim"
                /\ exc' = "none"
                /\ t' = t + 1
                /\ anc' = [anc EXCEPT ![t + 1] = anc_next]
                /\ cum_ox' = [cum_ox EXCEPT ![t + 1] = cum_next]
                /\ acute_neuropathy' =
                       [acute_neuropathy EXCEPT ![t + 1] = acute_next]
                /\ chronic_neuropathy' =
                       [chronic_neuropathy EXCEPT ![t + 1] = chronic_next]
                /\ eff_auc' = [eff_auc EXCEPT ![t] = eff]
                /\ kill_rate' = [kill_rate EXCEPT ![t] = kr]
                /\ tumor_size' = [tumor_size EXCEPT ![t + 1] = tumor_next]
                /\ daily_cost' = [daily_cost EXCEPT ![t] = cost_today]
                /\ total_cost' =
                       [total_cost EXCEPT ![t + 1] = total_cost[t] + cost_today]
                /\ utility' =
                       [utility EXCEPT ![t + 1] =
                           UtilityNext(params, m, anc_next, acute_next,
                                       chronic_next, cost_today, tumor_next)]
                /\ UNCHANGED << dose_5fu, dose_ox >>
    /\ UNCHANGED << params, mainVars, model, num_cycles_to_administer,
                    traces >>

\* --------------------------------------------- optimise_folfox.main

\* -np.inf: below every utility a run can produce
NegInf == -1000000000

main_cycle_len_days == 14

\* "if args.horizon:" is false for None and for 0
Truthy(o) == ~IsNone(o) /\ Val(o) # 0

\* the two early "return 1" of the patient overrides
OverrideRejected(a) ==
    \/ ~IsNone(a.weight) /\ Val(a.weight) <= 0
    \/ ~IsNone(a.height) /\ Val(a.height) <= 0

\* params.update_from_dict(overrides)
UpdateFromArgs(p, a) ==
    [p EXCEPT
       !.optimization.horizon_days =
           IF Truthy(a.horizon) THEN Val(a.horizon) ELSE @,
       !.optimization.step_size_days =
           IF Truthy(a.step) THEN Val(a.step) ELSE @,
       !.dosing.patient_weight_kg =
           IF ~IsNone(a.weight) THEN Val(a.weight) ELSE @,
       !.dosing.patient_height_cm =
           IF ~IsNone(a.height) THEN Val(a.height) ELSE @]

\* mutant: the number of candidates is taken for the last candidate
MaxPossibleCyclesOneMore(horizon_days) ==
    horizon_days \div main_cycle_len_days + 1

\* int(horizon_days // cycle_len_days)
MaxPossibleCycles(horizon_days) == horizon_days \div main_cycle_len_days

\* mutant: a later candidate with an equal mean replaces the incumbent
BetterOrEqual(avg_utility, best) == avg_utility >= best

\* "if avg_utility > best_avg_utility"
Better(avg_utility, best) == avg_utility > best

\* np.mean(results['utility'][1:]) if len(results['utility']) > 1 else baseline
AvgUtility(results, p) ==
    LET n == Cardinality(DOMAIN results.utility)
    IN  IF n > 1 THEN MeanFrom1(results.utility, n - 1)
                 ELSE p.utility.baseline_utility

\* main up to the search loop: overrides, setup of the search
MainSetup ==
    /\ pc = "start"
    /\ IF OverrideRejected(args)
       THEN /\ pc' = "exit"
            /\ outcome' = "config_error"
            /\ UNCHANGED << params, max_possible_cycles >>
       ELSE /\ pc' = "loop"
            /\ outcome' = "searching"
            /\ params' = UpdateFromArgs(params, args)
            /\ max_possible_cycles' =
                   MaxPossibleCycles(params'.optimization.horizon_days)
    /\ n_cycles' = 0
    /\ best_avg_utility' = NegInf
    /\ optimal_cycle_count' = 0
    /\ best_results' = None
    /\ UNCHANGED << args, console, model, exc, num_cycles_to_administer,
                    simVars, traces >>

\* "for n_cycles in range(max_possible_cycles + 1)": next candidate
LoopHead ==
    /\ pc = "loop"
    /\ n_cycles <= max_possible_cycles
    /\ console' = Append(console, [kind |-> "simulating", n |-> n_cycles,
                                   avg |-> 0])
    /\ num_cycles_to_administer' = n_cycles
    /\ pc' = "init"
    /\ UNCHANGED << args, params, outcome, max_possible_cycles, n_cycles,
                    best_avg_utility, optimal_cycle_count, best_results,
                    model, exc, simVars, traces >>

\* solve returned: score the trace, keep it if strictly better
Score ==
    /\ pc = "sim"
    /\ t = Val(model).T
    /\ LET results == Results(Val(model))
           avg_utility == AvgUtility(results, params)
       IN  /\ console' = Append(console, [kind |-> "average", n |-> n_cycles,
                                          avg |-> avg_utility])
           /\ IF Better(avg_utility, best_avg_utility)
              THEN /\ best_avg_utility' = avg_utility
                   /\ optimal_cycle_count' = n_cycles
                   /\ best_results' = Some(results)
              ELSE UNCHANGED << best_avg_utility, optimal_cycle_count,
                                best_results >>
    /\ n_cycles' = n_cycles + 1
    /\ pc' = "loop"
    /\ UNCHANGED << args, params, outcome, max_possible_cycles, model, exc,
                    num_cycles_to_administer, simVars, traces >>

\* mutant: the first failing candidate ends the search
ExceptAborts ==
    /\ pc = "raised"
    /\ console' = Append(console, [kind |-> "error", n |-> n_cycles,
                                   avg |-> 0])
    /\ n_cycles' = max_possible_cycles + 1
    /\ exc' = "none"
    /\ pc' = "loop"
    /\ UNCHANGED << args, params, outcome, max_possible_cycles,
                    best_avg_utility, optimal_cycle_count, best_results,
                    model, num_cycles_to_administer, simVars, traces >>

\* "except Exception as e": report the candidate and go on
Except ==
    /\ pc = "raised"
    /\ console' = Append(console, [kind |-> "error", n |-> n_cycles,
                                   avg |-> 0])
    /\ n_cycles' = n_cycles + 1
    /\ exc' = "none"
    /\ pc' = "loop"
    /\ UNCHANGED << args, params, outcome, max_possible_cycles,
                    best_avg_utility, optimal_cycle_count, best_results,
                    model, num_cycles_to_administer, simVars, traces >>

\* after the loop: "if best_results is None: ... return 1", else the
\* optimum goes to the analysis
LoopExit ==
    /\ pc = "loop"
    /\ n_cycles > max_possible_cycles
    /\ outcome' = IF IsNone(best_results) THEN "no_feasible" ELSE "optimum"
    /\ pc' = "exit"
    /\ UNCHANGED << args, params, console, max_possible_cycles, n_cycles,
                    best_avg_utility, optimal_cycle_count, best_results,
                    model, exc, num_cycles_to_administer, simVars, traces >>

\* ------------------------------------------------ a direct call of solve

MaxCyclesArg == 3

\* model.solve(n) returned to a caller that keeps the trace and may call
\* solve again on the same instance
SolveReturn ==
    /\ pc = "sim"
    /\ t = Val(model).T
    /\ traces' = Append(traces, Results(Val(model)))
    /\ pc' = IF Len(traces') < 2 THEN "schedule" ELSE "returned"
    /\ UNCHANGED << params, mainVars, model, exc, num_cycles_to_administer,
                    simVars >>

\* -------------------------------------------------------- specifications

InitLocals ==
    /\ outcome = "searching"
    /\ console = << >>
    /\ max_possible_cycles = 0
    /\ n_cycles = 0
    /\ best_avg_utility = NegInf
    /\ optimal_cycle_count = 0
    /\ best_results = None
    /\ model = None
    /\ exc = "none"
    /\ t = 0
    /\ dose_5fu = Zeros(0)
    /\ dose_ox = Zeros(0)
    /\ anc = Zeros(0)
    /\ cum_ox = Zeros(0)
    /\ acute_neuropathy = Zeros(0)
    /\ chronic_neuropathy = Zeros(0)
    /\ utility = Zeros(0)
    /\ daily_cost = Zeros(0)
    /\ total_cost = Zeros(0)
    /\ tumor_size = Zeros(0)
    /\ kill_rate = Zeros(0)
    /\ eff_auc = Zeros(0)
    /\ traces = << >>

\* main() on a loaded configuration
Init ==
    /\ pc = "start"
    /\ \/ params \in ConfigBundles /\ args = NoArgs
       \/ params \in { BaseBundle } \cup InvalidBundles /\ args \in ArgSets \ { NoArgs }
    /\ num_cycles_to_administer = 0
    /\ InitLocals

Next ==
    \/ MainSetup
    \/ LoopHead
    \/ ModelInit
    \/ SimulateBegin
    \/ SimStep
    \/ Score
    \/ Except
    \/ LoopExit

Spec == Init /\ [][Next]_vars

\* FOLFOXModel(params).solve(n), called directly, twice on one instance
SimInit ==
    /\ pc = "init"
    /\ params \in ConfigBundles
    /\ args = NoArgs
    /\ num_cycles_to_administer \in 0 .. MaxCyclesArg
    /\ InitLocals

SimNext ==
    \/ ModelInit
    \/ SimulateBegin
    \/ SimStep
    \/ SolveReturn

SimSpec == SimInit /\ [][SimNext]_vars

\* ---------------------------------------------------------- properties

\* the schedule and the state arrays of the current call exist
InRun == pc \in { "sim", "returned" }

\* C1: for a valid bundle and any cycle count, ANC and tumour size are >= 0
\* at every index of the trace being built and of every trace returned.
C1_NonNegative ==
    Valid(params) =>
        /\ \A i \in DOMAIN anc : anc[i] >= 0
        /\ \A i \in DOMAIN tumor_size : tumor_size[i] >= 0
        /\ \A k \in 1 .. Len(traces) :
               /\ \A i \in DOMAIN traces[k].anc : traces[k].anc[i] >= 0
               /\ \A i \in DOMAIN traces[k].tumor_size :
                      traces[k].tumor_size[i] >= 0

\* a returned trace of a valid bundle in which both floors were reached
C1_Witness ==
    /\ pc = "returned"
    /\ Valid(params)
    /\ num_cycles_to_administer >= 1
    /\ \E i \in DOMAIN traces[1].anc : i >= 1 /\ traces[1].anc[i] = 0
    /\ \E i \in DOMAIN traces[1].tumor_size :
           i >= 1 /\ traces[1].tumor_size[i] = 0

\* C2: the chronic-neuropathy flag never goes back from 1 to 0 inside a
\* trace (steps computed so far, and every returned trace).
C2_ChronicMonotone ==
    /\ \A i \in 0 .. (t - 1) :
           chronic_neuropathy[i] = 1 => chronic_neuropathy[i + 1] = 1
    /\ \A k \in 1 .. Len(traces) :
           \A i \in DOMAIN traces[k].chronic_neuropathy :
               (i >= 1 /\ traces[k].chronic_neuropathy[i - 1] = 1)
                   => traces[k].chronic_neuropathy[i] = 1

\* a returned trace where the flag is set in mid-run and is still set at T
C2_Witness ==
    /\ pc = "returned"
    /\ LET c == traces[1].chronic_neuropathy
           last == Val(model).T
       IN  /\ c[last] = 1
           /\ \E i \in 1 .. (last - 2) : c[i] = 0 /\ c[i + 1] = 1

\* C3: cumulative cost and cumulative oxaliplatin never decrease from one
\* step of a trace to the next.
C3_CumulativeMonotone ==
    /\ \A i \in 0 .. (t - 1) :
           /\ total_cost[i + 1] >= total_cost[i]
           /\ cum_ox[i + 1] >= cum_ox[i]
    /\ \A k \in 1 .. Len(traces) :
           \A i \in DOMAIN traces[k].total_cost :
               i >= 1 =>
                   /\ traces[k].total_cost[i] >= traces[k].total_cost[i - 1]
                   /\ traces[k].cum_ox[i] >= traces[k].cum_ox[i - 1]

\* a returned trace with two oxaliplatin doses and a positive total cost
C3_Witness ==
    /\ pc = "returned"
    /\ LET last == Val(model).T
       IN  /\ last >= 2
           /\ traces[1].cum_ox[1] > 0
           /\ traces[1].cum_ox[last] > traces[1].cum_ox[1]
           /\ traces[1].total_cost[last] > traces[1].total_cost[1]

\* C4: with N = 0 and a valid bundle every dose is zero, ANC stays at the
\* baseline, both neuropathy flags stay 0 and the tumour grows by
\* dt * growth_rate * size at every step.
C4_NoCycles ==
    (Valid(params) /\ num_cycles_to_administer = 0 /\ InRun) =>
        /\ \A i \in DOMAIN dose_5fu : dose_5fu[i] = 0 /\ dose_ox[i] = 0
        /\ \A i \in 0 .. t :
               /\ anc[i] = params.hematology.anc_baseline
               /\ acute_neuropathy[i] = 0
               /\ chronic_neuropathy[i] = 0
        /\ \A i \in 0 .. (t - 1) :
               tumor_size[i + 1] =
                   tumor_size[i]
                     + Val(model).dt
                         * FMul(params.tumor.growth_rate, tumor_size[i])

\* the day indices at which an array holds a nonzero dose
DosedAt(dose) == { i \in DOMAIN dose : dose[i] > 0 }

\* days 1 and 2 of the first n cycles of 14 days, on a grid of 1 day
CycleDays(n) ==
    UNION { { cycle_len_days * c, cycle_len_days * c + 1 } : c \in 0 .. (n - 1) }

\* C8: with a step of 1 day, 5-FU is dosed at exactly the indices 14c and
\* 14c+1 (c < N) that lie below T: 2N indices when every cycle fits; a
\* cycle starting at or after T adds no dose and raises nothing.
C8_FiveFuDays ==
    (Valid(params) /\ params.optimization.step_size_days = 1) =>
        /\ pc # "raised"
        /\ InRun =>
             LET n == num_cycles_to_administer
                 last == Val(model).T
             IN  /\ DosedAt(dose_5fu) = { d \in CycleDays(n) : d < last }
                 /\ (n >= 1 /\ cycle_len_days * (n - 1) + 1 < last) =>
                        Cardinality(DosedAt(dose_5fu)) = 2 * n

\* three cycles asked on a 15-day horizon: the second is cut to its first
\* day, the third is dropped
C8_Witness ==
    /\ pc = "sim"
    /\ Valid(params)
    /\ params.optimization.step_size_days = 1
    /\ num_cycles_to_administer = 3
    /\ Val(model).T = 15
    /\ DosedAt(dose_5fu) = { 0, 1, 14 }

\* C9: with a step of 1 day, oxaliplatin is nonzero at no more than N
\* indices and two consecutive nonzero entries are at least
\* min_days_between_ox indices apart, whatever min_days_between_ox is.
C9_OxSpacing ==
    (Valid(params) /\ params.optimization.step_size_days = 1 /\ InRun) =>
        LET D == DosedAt(dose_ox)
        IN  /\ Cardinality(D) <= num_cycles_to_administer
            /\ \A i \in D : \A j \in D :
                   (i < j /\ ~ \E k \in D : i < k /\ k < j)
                       => j - i >= Val(params.dosing.min_days_between_ox)

\* two oxaliplatin doses exactly min_days_between_ox = 14 indices apart
C9_Witness ==
    /\ pc = "sim"
    /\ Valid(params)
    /\ params.optimization.step_size_days = 1
    /\ Val(params.dosing.min_days_between_ox) = 14
    /\ DosedAt(dose_ox) = { 0, 14 }

\* C10: two calls of solve with the same bundle and the same cycle count
\* return the same trace, field by field and step by step.
C10_Deterministic ==
    Len(traces) = 2 => traces[1] = traces[2]

\* a second trace returned after a first one that dosed oxaliplatin twice
C10_Witness ==
    /\ Len(traces) = 2
    /\ Valid(params)
    /\ Val(model).T >= 2
    /\ traces[2].cum_ox[Val(model).T] > traces[2].cum_ox[1]
    /\ traces[1].cum_ox[1] > 0

\* the search loop has run to its end
Searched == pc = "exit" /\ outcome # "config_error"

Printed(kind) == SelectSeq(console, LAMBDA e : e.kind = kind)

\* C5: the search tries exactly N = 0 .. floor(horizon_days / 14), in
\* increasing order, and returns the candidate whose mean utility over
\* steps 1..T is greatest, the smallest such N on a tie, with that
\* candidate's own mean and trace.
C5_Optimum ==
    Searched =>
        LET sims == Printed("simulating")
            avgs == Printed("average")
            last == params.optimization.horizon_days \div main_cycle_len_days
        IN  /\ Len(sims) = Max(0, last + 1)
            /\ \A i \in 1 .. Len(sims) : sims[i].n = i - 1
            /\ outcome = "optimum" =>
                 /\ \E k \in 1 .. Len(avgs) :
                        /\ avgs[k].n = optimal_cycle_count
                        /\ avgs[k].avg = best_avg_utility
                 /\ \A j \in 1 .. Len(avgs) :
                        /\ avgs[j].avg <= best_avg_utility
                        /\ avgs[j].avg = best_avg_utility
                               => avgs[j].n >= optimal_cycle_count
                 /\ LET r == Val(best_results)
                        m == Val(model)
                        sched == GetDosingSchedule(optimal_cycle_count, m, params)
                    IN  /\ r.dose_5fu = AppendZero(sched.d5, m.T)
                        /\ r.dose_ox = AppendZero(sched.dox, m.T)
                        /\ m.T >= 1 =>
                             best_avg_utility
                                 = SumRange(r.utility, 1, m.T) \div m.T

\* three candidates, 1 and 2 tie above 0, and 1 is returned
C5_Witness ==
    /\ Searched
    /\ outcome = "optimum"
    /\ Len(console) = 6
    /\ optimal_cycle_count = 1
    /\ console[2].avg < console[4].avg
    /\ console[6].avg = console[4].avg

\* whether FOLFOXModel(p).solve(n) raises
SolveRaises(p, n) ==
    \/ InitRaises(p) # "none"
    \/ LET sched == GetDosingSchedule(n, NewModel(p), p)
       IN  \/ sched.raised # "none"
           \/ \E i \in DOMAIN sched.d5 : CostRaises(p, sched.d5[i], sched.dox[i])

\* C6: a candidate whose simulation raises is reported as failed and the
\* remaining candidates are still tried; the search ends without a
\* schedule exactly when no candidate returned a trace, and otherwise
\* returns the best of the candidates that did.
C6_FailureContinues ==
    Searched =>
        LET last == params.optimization.horizon_days \div main_cycle_len_days
            avgs == Printed("average")
        IN  /\ Len(console) = 2 * Max(0, last + 1)
            /\ \A n \in 0 .. last :
                   /\ console[2 * n + 1].kind = "simulating"
                   /\ console[2 * n + 1].n = n
                   /\ console[2 * n + 2].n = n
                   /\ console[2 * n + 2].kind =
                          IF SolveRaises(params, n) THEN "error" ELSE "average"
            /\ outcome = "no_feasible" <=> Len(avgs) = 0
            /\ outcome = "optimum" =>
                   /\ \E k \in 1 .. Len(avgs) :
                          /\ avgs[k].n = optimal_cycle_count
                          /\ avgs[k].avg = best_avg_utility
                   /\ \A j \in 1 .. Len(avgs) : avgs[j].avg <= best_avg_utility

\* candidate 1 failed, candidate 2 was still tried, candidate 0 is returned
C6_Witness ==
    /\ Searched
    /\ outcome = "optimum"
    /\ Len(console) = 6
    /\ console[2].kind = "average"
    /\ console[4].kind = "error"
    /\ console[5].kind = "simulating"
    /\ console[5].n = 2
    /\ optimal_cycle_count = 0

\* the configuration main works with is non-physical: weight or height
\* <= 0, step size or horizon <= 0
NonPhysical ==
    \/ OverrideRejected(args)
    \/ LET b == UpdateFromArgs(params, args)
       IN  \/ b.dosing.patient_weight_kg <= 0
           \/ b.dosing.patient_height_cm <= 0
           \/ b.optimization.step_size_days <= 0
           \/ b.optimization.horizon_days <= 0

\* C7: a configuration error is never handled as the failure of a
\* candidate and never ends in the no-feasible-schedule outcome; main
\* leaves with a configuration error before any candidate is simulated.
C7_ConfigErrorSurfaced ==
    NonPhysical =>
        /\ Len(Printed("error")) = 0
        /\ outcome # "no_feasible"
        /\ pc = "exit" => outcome = "config_error"

\* the keys of the results dictionary
ResultKeys ==
    { "time", "dose_5fu", "dose_ox", "anc", "acute_neuropathy",
      "chronic_neuropathy", "cum_ox", "utility",
      "chronic_neuropathy_threshold_mg", "daily_cost", "total_cost",
      "tumor_size", "kill_rate", "effective_auc" }

\* the quantities the trace is said to hold, under the key the code uses;
\* no key of the code carries a plasma concentration
NamedQuantities ==
    { "time", "dose_5fu", "dose_ox", "conc_5fu", "conc_ox", "anc", "cum_ox",
      "acute_neuropathy", "chronic_neuropathy", "tumor_size", "daily_cost",
      "total_cost", "utility" }

\* every sequence of trace r runs over 0..T and the two dose sequences are
\* the schedule of n cycles followed by one zero
TraceAligned(r, n) ==
    LET m == Val(model)
        sched == GetDosingSchedule(n, m, params)
    IN  /\ \A key \in DOMAIN r : DOMAIN r[key] = 0 .. m.T
        /\ \A i \in 0 .. (m.T - 1) :
               r.dose_5fu[i] = sched.d5[i] /\ r.dose_ox[i] = sched.dox[i]
        /\ r.dose_5fu[m.T] = 0
        /\ r.dose_ox[m.T] = 0

\* C11 as stated: every returned trace holds one sequence of length T+1 for
\* each named quantity, the two plasma concentrations included, and the
\* dose sequences are the schedule plus a trailing zero.
C11_TraceFields ==
    \A k \in 1 .. Len(traces) :
        /\ NamedQuantities \subseteq DOMAIN traces[k]
        /\ TraceAligned(traces[k], num_cycles_to_administer)

\* C11 amended: every returned trace holds exactly the keys of ResultKeys
\* (no plasma concentration among them), each a sequence over 0..T, and the
\* dose sequences are the schedule plus a trailing zero.
C11_TraceShape ==
    \A k \in 1 .. Len(traces) :
        /\ DOMAIN traces[k] = ResultKeys
        /\ NamedQuantities \ { "conc_5fu", "conc_ox" } \subseteq DOMAIN traces[k]
        /\ TraceAligned(traces[k], num_cycles_to_administer)

\* a returned trace whose schedule ends on a dosed step, followed by the zero
C11_Witness ==
    /\ pc = "returned"
    /\ Valid(params)
    /\ LET last == Val(model).T
       IN  /\ last >= 1
           /\ traces[1].dose_5fu[last - 1] > 0
           /\ traces[1].dose_5fu[last] = 0
           /\ traces[1].dose_ox[last - 1] > 0

\* the schedule the spacing rule describes: cycle by cycle, oxaliplatin is
\* placed at the cycle's first index when that index is below T and either
\* nothing was placed before or the index is at least min_days days after
\* the last index placed; only a placed dose moves the last index
RECURSIVE SpacedOx(_, _, _, _, _, _, _)
SpacedOx(cycle, n, last_ox_index, placed, dt, T, min_days) ==
    IF cycle >= n THEN placed
    ELSE LET day1_idx == StartDayIdx(cycle, dt)
             due == /\ day1_idx < T
                    /\ \/ IsNone(last_ox_index)
                       \/ (day1_idx - Val(last_ox_index)) * dt >= min_days
         IN  IF due
             THEN SpacedOx(cycle + 1, n, Some(day1_idx),
                           placed \cup { day1_idx }, dt, T, min_days)
             ELSE SpacedOx(cycle + 1, n, last_ox_index, placed, dt, T, min_days)

\* C12: oxaliplatin is scheduled at a cycle's first index iff it was never
\* dosed before or that index is at least the minimum spacing after the
\* index last dosed, which moves only when a dose is scheduled; a skipped
\* cycle does not delay the later ones.
C12_SpacingTracked ==
    (Valid(params) /\ InRun) =>
        DosedAt(dose_ox) =
            SpacedOx(0, num_cycles_to_administer, None, {}, Val(model).dt,
                     Val(model).T, Val(params.dosing.min_days_between_ox))

\* volumes of distribution (litres) the one-compartment update is tried
\* with; the bundle of the code has clearances but no volume
Volumes == { 10 * Scale, 50 * Scale }

\* plasma concentration at step i of a one-compartment model fed by the
\* dose sequence: C[0] = 0, C[i+1] = C[i] + dt * (dose[i]/V - (CL/V) * C[i])
RECURSIVE Conc(_, _, _, _, _)
Conc(dose, i, dt, clearance, volume) ==
    IF i = 0 THEN 0
    ELSE LET c == Conc(dose, i - 1, dt, clearance, volume)
         IN  c + dt * (FDiv(dose[i - 1], volume)
                         - FMul(FDiv(clearance, volume), c))

\* C13 as stated: ANC[t+1] = max(0, ANC[t] + dt * (k_out * ANC_base
\* - k_out * ANC[t] - (k_tox_A * C_A[t] + k_tox_B * C_B[t]) * ANC[t])), the
\* toxicity term driven by the plasma concentrations at t.
C13_AncPlasmaDriven ==
    (Valid(params) /\ InRun) =>
        \E v5 \in Volumes : \E vox \in Volumes :
            \A i \in 0 .. (t - 1) :
                LET h == params.hematology
                    dt == Val(model).dt
                    c5 == Conc(dose_5fu, i, dt,
                               params.tumor.clearance_5fu_L_h, v5)
                    cox == Conc(dose_ox, i, dt,
                                params.tumor.clearance_ox_L_h, vox)
                    tox == FMul(FMul(h.k_tox_5fu_dose, c5)
                                  + FMul(h.k_tox_ox_dose, cox), anc[i])
                IN  anc[i + 1] =
                        Max(0, anc[i] + dt * (FMul(h.k_out, h.anc_baseline)
                                                - FMul(h.k_out, anc[i]) - tox))

\* C13 amended: the same update with the doses given at t in the place of
\* the plasma concentrations: the toxicity term is
\* (k_tox_A * dose_A[t] + k_tox_B * dose_B[t]) * ANC[t].
C13_AncDoseDriven ==
    (Valid(params) /\ InRun) =>
        \A i \in 0 .. (t - 1) :
            LET h == params.hematology
                dt == Val(model).dt
                tox == FMul(FMul(h.k_tox_5fu_dose, dose_5fu[i])
                              + FMul(h.k_tox_ox_dose, dose_ox[i]), anc[i])
            IN  anc[i + 1] =
                    Max(0, anc[i] + dt * (FMul(h.k_out, h.anc_baseline)
                                            - FMul(h.k_out, anc[i]) - tox))

\* the dose of step 0 lowers the count at step 1, which later recovers
C13_Witness ==
    /\ pc = "sim"
    /\ Valid(params)
    /\ t >= 3
    /\ dose_ox[0] > 0
    /\ anc[1] < anc[0]
    /\ dose_ox[t - 1] = 0 /\ dose_5fu[t - 1] = 0
    /\ anc[t] > anc[t - 1]

\* size[i+1] = max(0, size[i] + dt * (growth_rate * size[i] - Hill(e) * size[i]))
\* with Hill(e) = 0 when e <= 0
SizeFollows(i, e) ==
    LET tm == params.tumor
        kill == IF e > 0
                THEN FDiv(FMul(tm.E_max, FPow(e, tm.hill_coef)),
                          FPow(e, tm.hill_coef) + FPow(tm.EC_50, tm.hill_coef))
                ELSE 0
    IN  tumor_size[i + 1] =
            Max(0, tumor_size[i]
                     + Val(model).dt * (FMul(tm.growth_rate, tumor_size[i])
                                          - FMul(kill, tumor_size[i])))

\* C14 as stated: the size follows the Hill law of an exposure e that is
\* the potency-weighted sum of the two plasma concentrations at step t,
\* nothing else carried over into e.
C14_KillFromPlasma ==
    (Valid(params) /\ InRun) =>
        \E v5 \in Volumes : \E vox \in Volumes :
            \A i \in 0 .. (t - 1) :
                SizeFollows(i,
                    FMul(params.tumor.alpha_ox,
                         Conc(dose_ox, i, Val(model).dt,
                              params.tumor.clearance_ox_L_h, vox))
                      + FMul(params.tumor.alpha_5fu,
                             Conc(dose_5fu, i, Val(model).dt,
                                  params.tumor.clearance_5fu_L_h, v5)))

\* C14 amended: the exposure of step t is the potency-weighted sum of
\* dose/clearance of the two agents at t plus, for t > 0, 0.7 times the
\* exposure of step t-1; the size follows the Hill law of that exposure.
C14_KillFromDecayingAuc ==
    (Valid(params) /\ InRun) =>
        \A i \in 0 .. (t - 1) :
            LET tm == params.tumor
                today == FMul(tm.alpha_ox, FDiv(dose_ox[i], tm.clearance_ox_L_h))
                           + FMul(tm.alpha_5fu,
                                  FDiv(dose_5fu[i], tm.clearance_5fu_L_h))
                carried == IF i > 0 THEN (eff_auc[i - 1] * 70) \div Scale ELSE 0
            IN  /\ eff_auc[i] = today + carried
                /\ (eff_auc[i] <= 0 => kill_rate[i] = 0)
                /\ SizeFollows(i, eff_auc[i])

\* a step without a dose that still kills through the carried-over
\* exposure, and a later step whose exposure and kill rate are back to 0
C14_Witness ==
    /\ pc = "sim"
    /\ Valid(params)
    /\ \E i \in 1 .. (t - 2) :
           /\ dose_ox[i] = 0 /\ dose_5fu[i] = 0
           /\ eff_auc[i] > 0 /\ kill_rate[i] > 0
           /\ tumor_size[i + 1] < tumor_size[i]
    /\ t >= 1 /\ eff_auc[t - 1] = 0 /\ kill_rate[t - 1] = 0
    /\ tumor_size[t] > tumor_size[t - 1]

\* C15: the acute flag is 0 at step 0 and, at step i+1, is 1 exactly when
\* oxaliplatin was dosed at step i: it remembers one step and no more.
C15_AcuteOneStep ==
    InRun =>
        /\ acute_neuropathy[0] = 0
        /\ \A i \in 0 .. (t - 1) :
               /\ acute_neuropathy[i + 1] \in { 0, 1 }
               /\ acute_neuropathy[i + 1] = 1 <=> dose_ox[i] > 0

\* the flag raised by the dose of step 0 is down again one step later and
\* up again after the dose of the second cycle
C15_Witness ==
    /\ pc = "sim"
    /\ Valid(params)
    /\ t >= 9
    /\ acute_neuropathy[1] = 1
    /\ acute_neuropathy[2] = 0
    /\ \E i \in 3 .. t : acute_neuropathy[i] = 1 /\ acute_neuropathy[i - 1] = 0

\* steps i and j saw the same neutropenia condition, flags and tumour size
\* at the index they wrote and the same daily cost at the step itself
SameSnapshot(i, j) ==
    LET thr == Val(model).severe_neutropenia_thresh
    IN  /\ (anc[i + 1] < thr) <=> (anc[j + 1] < thr)
        /\ acute_neuropathy[i + 1] = acute_neuropathy[j + 1]
        /\ chronic_neuropathy[i + 1] = chronic_neuropathy[j + 1]
        /\ daily_cost[i] = daily_cost[j]
        /\ tumor_size[i + 1] = tumor_size[j + 1]

\* C16: the utility of a step is a snapshot: two steps that agree on the
\* neutropenia condition, the two flags, the daily cost and the tumour size
\* have the same utility, whatever the utilities before them were.
C16_UtilitySnapshot ==
    (Valid(params) /\ InRun) =>
        \A i \in 0 .. (t - 1) : \A j \in (i + 1) .. (t - 1) :
            SameSnapshot(i, j) => utility[i + 1] = utility[j + 1]

\* two steps that agree on the snapshot, follow different utilities and
\* differ from the one before them
C16_Witness ==
    /\ pc = "sim"
    /\ Valid(params)
    /\ \E i \in 1 .. (t - 1) : \E j \in 1 .. (t - 1) :
           /\ SameSnapshot(i, j)
           /\ utility[i] # utility[j]
           /\ utility[i + 1] # utility[i]
           /\ utility[j + 1] # utility[j]

\* the utility step i would have written with the same cost and tumour
\* size and neither penalised condition present
Unpenalised(i) ==
    params.utility.baseline_utility
      - FMul(daily_cost[i], params.economics.cost_utility_factor)
      + FMul(-params.tumor.tumor_weight_in_utility,
             FDiv(tumor_size[i + 1], params.tumor.initial_size))

SevereAt(i) == anc[i] < Val(model).severe_neutropenia_thresh

NeuropathyAt(i) == acute_neuropathy[i] = 1 \/ chronic_neuropathy[i] = 1

\* what the neuropathy flags and the neutropenia condition add at step i
NeutropeniaTerm(i) ==
    IF SevereAt(i + 1) THEN params.utility.neutropenia_penalty ELSE 0

NeuropathyTerm(i) ==
    IF NeuropathyAt(i + 1) THEN params.utility.neuropathy_penalty ELSE 0

\* C17 as stated: whatever the sign the penalties are stored with, the
\* utility of a step where severe neutropenia or a neuropathy flag holds is
\* never greater than it would be with that condition absent.
C17_PenaltiesDecrease ==
    (Valid(params) /\ InRun) =>
        \A i \in 0 .. (t - 1) :
            /\ SevereAt(i + 1) => utility[i + 1] <= Unpenalised(i) + NeuropathyTerm(i)
            /\ NeuropathyAt(i + 1) => utility[i + 1] <= Unpenalised(i) + NeutropeniaTerm(i)

\* steps of one candidate: LoopHead, ModelInit, SimulateBegin, T passes of
\* the simulator loop, and Score or Except
StepsPerCandidate ==
    LET o == params.optimization
        T == IF o.step_size_days = 0 THEN 0
             ELSE IntDiv(o.horizon_days, o.step_size_days)
    IN  Max(0, T) + 4

\* how far the run is: whole candidates done, then the place in the
\* current one
Progress ==
    CASE pc = "start" -> -1
      [] pc = "loop" -> n_cycles * StepsPerCandidate
      [] pc = "init" -> n_cycles * StepsPerCandidate + 1
      [] pc = "schedule" -> n_cycles * StepsPerCandidate + 2
      [] pc = "sim" -> n_cycles * StepsPerCandidate + 3 + t
      [] pc = "raised" -> (n_cycles + 1) * StepsPerCandidate - 1
      [] OTHER -> n_cycles * StepsPerCandidate + 1

\* C18: every run ends after a fixed number of steps. Until main has
\* returned a step is always possible, every step moves Progress up, and
\* Progress has a ceiling known from the configuration; a simulator call
\* takes at most T passes and exactly T when it returns; with a physical
\* configuration the search ends after exactly floor(horizon_days / 14) + 1
\* simulator calls, each ended by a mean or by an error.
C18_Terminates ==
    /\ [](pc # "exit" => ENABLED Next)
    /\ [][Progress' > Progress]_vars
    /\ [](pc # "start" =>
            Progress <= (Max(0, max_possible_cycles + 1) + 1) * StepsPerCandidate)
    /\ [](pc = "sim" => t <= Val(model).T)
    /\ [][(pc = "sim" /\ pc' = "loop") => t = Val(model).T]_vars
    /\ []((pc = "exit" /\ ~NonPhysical) =>
            /\ Len(Printed("simulating")) =
                   params.optimization.horizon_days \div 14 + 1
            /\ Len(Printed("average")) + Len(Printed("error")) =
                   Len(Printed("simulating")))

\* a search of three candidates that has ended, one scored after its T
\* steps and one failed
C18_Witness ==
    /\ pc = "exit"
    /\ ~NonPhysical
    /\ Len(Printed("simulating")) = 3
    /\ Len(Printed("average")) >= 1
    /\ Len(Printed("error")) >= 1
    /\ t = Val(model).T
    /\ t >= 14


\* one pass of the simulator loop on a trace s held as a value
StandaloneStep(s, i, m, p) ==
    LET d5 == s.dose_5fu[i]
        dox == s.dose_ox[i]
        anc_next == AncNext(p, m.dt, s.anc[i], d5, dox)
        cum_next == CumOxNext(s.cum_ox[i], dox)
        acute_next == AcuteNext(dox)
        chronic_next == ChronicNext(cum_next, s.chronic_neuropathy[i],
                                    m.chronic_neuro_thresh_mg)
        eff == EffAuc(p, i, d5, dox, IF i > 0 THEN s.effective_auc[i - 1] ELSE 0)
        kr == KillRate(p, eff)
        tumor_next == TumorNext(p, m.dt, s.tumor_size[i], kr)
        cost_today == CostToday(p, d5, dox)
    IN  [s EXCEPT
           !.anc[i + 1] = anc_next,
           !.cum_ox[i + 1] = cum_next,
           !.acute_neuropathy[i + 1] = acute_next,
           !.chronic_neuropathy[i + 1] = chronic_next,
           !.effective_auc[i] = eff,
           !.kill_rate[i] = kr,
           !.tumor_size[i + 1] = tumor_next,
           !.daily_cost[i] = cost_today,
           !.total_cost[i + 1] = s.total_cost[i] + cost_today,
           !.utility[i + 1] =
               UtilityNext(p, m, anc_next, acute_next, chronic_next,
                           cost_today, tumor_next)]

RECURSIVE StandaloneLoop(_, _, _, _)
StandaloneLoop(s, i, m, p) ==
    IF i >= m.T THEN s
    ELSE StandaloneLoop(StandaloneStep(s, i, m, p), i + 1, m, p)

\* FOLFOXModel(p).solve(n) on its own, nothing before it: the trace it
\* returns when it raises nothing
StandaloneRun(p, n) ==
    LET m == NewModel(p)
        sched == GetDosingSchedule(n, m, p)
        zeros == Zeros(m.T + 1)
    IN  StandaloneLoop(
            [ time |-> [i \in 0 .. m.T |-> i * m.dt],
              dose_5fu |-> [i \in 0 .. m.T |-> IF i < m.T THEN sched.d5[i] ELSE 0],
              dose_ox |-> [i \in 0 .. m.T |-> IF i < m.T THEN sched.dox[i] ELSE 0],
              anc |-> [zeros EXCEPT ![0] = p.hematology.anc_baseline],
              acute_neuropathy |-> zeros,
              chronic_neuropathy |-> zeros,
              cum_ox |-> zeros,
              utility |-> [zeros EXCEPT ![0] = p.utility.baseline_utility],
              chronic_neuropathy_threshold_mg |->
                  [i \in 0 .. m.T |-> m.chronic_neuro_thresh_mg],
              daily_cost |-> zeros,
              total_cost |-> zeros,
              tumor_size |-> [zeros EXCEPT ![0] = p.tumor.initial_size],
              kill_rate |-> zeros,
              effective_auc |-> zeros ],
            0, m, p)

\* C19: once the search has its bundle no step changes it, the simulator's
\* included; the trace the search gets for candidate N is the trace of a
\* standalone run with the same bundle and N, whatever ran before, and so
\* is the trace it returns for the optimum.
C19_NoCarryOver ==
    /\ [][pc # "start" => params' = params]_vars
    /\ []((pc = "sim" /\ t = Val(model).T) =>
            Results(Val(model)) = StandaloneRun(params, n_cycles))
    /\ []((pc = "exit" /\ outcome = "optimum") =>
            Val(best_results) = StandaloneRun(params, optimal_cycle_count))

\* the third candidate returned its trace after two others ran, chronic
\* neuropathy reached, and the bundle still has no neuropathy at step 0
C19_Witness ==
    /\ pc = "sim"
    /\ n_cycles = 2
    /\ t = Val(model).T
    /\ Len(Printed("average")) = 2
    /\ cum_ox[t] > 0
    /\ chronic_neuropathy[t] = 1
    /\ chronic_neuropathy[0] = 0
    /\ cum_ox[0] = 0


\* the absolute threshold: the per-m2 threshold times the body surface
\* area, sqrt(height * weight / 3600)
AbsoluteThreshold ==
    LET bsa == CHOOSE b \in Scale .. 3 * Scale :
                   b * b * 3600 = params.dosing.patient_height_cm
                                    * params.dosing.patient_weight_kg
    IN  FMul(params.neuropathy.chronic_neuropathy_threshold_mg_m2, bsa)

=============================================================================
